---- MODULE Spec2Model ----
(***************************************************************************)
(* A model of langchain-core/src/tracers/tracer_langchain.ts:             *)
(* LangChainTracer (constructor with hydration of the run map from the     *)
(* ambient traceable run tree, onRunCreate, onRunUpdate, getRun).          *)
(*                                                                         *)
(* JavaScript objects are functions from their own keys to values.  A key  *)
(* whose value is undefined is left out of the domain: that is how the     *)
(* object reaches the wire, and "unset" and "omitted" mean exactly this.   *)
(* Object references (run tree nodes, clients) are strings naming the      *)
(* object; the heap of run tree nodes is the variable tree.                *)
(***************************************************************************)
EXTENDS Integers, Sequences, FiniteSets, TLC

\* ------------------------------------------------------------- bounds
MaxNodes == 3
MaxDefects == 1
MaxCalls == 2
MaxInvokes == 2
MaxRuns == 3

\* ------------------------------------------------------- JS values
Undefined == "undefined"
NoNode == "null"
EmptyObject == [k \in {} |-> Undefined]

\* a ?? b
Coalesce(a, b) == IF a # Undefined THEN a ELSE b

\* o.k, undefined when o has no own key k
Get(o, k) == IF k \in DOMAIN o THEN o[k] ELSE Undefined

\* { ...a, ...b }
SpreadInto(a, b) ==
  [k \in DOMAIN a \cup DOMAIN b |-> IF k \in DOMAIN b THEN b[k] ELSE a[k]]

\* { ...o, k: undefined }
WithUndefined(o, k) == [j \in DOMAIN o \ {k} |-> o[j]]

\* { ...o, k: v } for a string or undefined v
With(o, k, v) == IF v = Undefined THEN WithUndefined(o, k) ELSE SpreadInto(o, k :> v)

\* ------------------------------------------------ the ambient run tree
NodeRefs == <<"n1", "n2", "n3", "n4", "n5">>
NodeIds == <<"a", "b", "c", "d", "e">>
DefaultClient == "defaultClient"
UserClient == "userClient"
TreeClient == "treeClient"

VARIABLES
  tree,           \* heap of RunTree nodes: ref -> [id, trace_id, parent_run, child_runs, client]
  defects,        \* number of malformations applied to the ambient tree
  env,            \* process environment: LANGCHAIN_PROJECT, LANGCHAIN_SESSION
  fields,         \* the LangChainTracerFields given to the constructor
  ambient,        \* what getCurrentRunTree() does here: "throws", "absent" or a node ref
  pc,             \* position of the constructor: new, rootwalk, flatten, ready, failed
  projectName, exampleId, client,   \* the tracer's fields
  traceableTree, rootRun, visited, queue,   \* the constructor's locals
  runMap,         \* BaseTracer.runMap: id -> node ref
  setLog,         \* history: the ids of the runMap.set calls, in order
  calls,          \* the onRunCreate / onRunUpdate calls made so far
  sent,           \* history: what the clients received, in order
  getResult,      \* the outcome of the last getRun call
  adapter,        \* the RunnableTraceable constructed, if any
  invokes,        \* the RunnableTraceable.invoke calls made so far
  funcCalls       \* history: the calls the wrapped function received, in order

vars == <<tree, defects, ambient, env, fields, pc, projectName, exampleId, client,
          traceableTree, rootRun, visited, queue, runMap, setLog, calls, sent,
          getResult, adapter, invokes, funcCalls>>

adapterVars == <<adapter, invokes, funcCalls>>

ctorVars == <<pc, projectName, exampleId, client, traceableTree, rootRun, visited,
              queue, runMap, setLog>>

Node(id, trace, parent, kids, cl) ==
  [id |-> id, trace_id |-> trace, parent_run |-> parent, child_runs |-> kids,
   client |-> cl]

\* RunTree.createChild: the child points to its parent, is appended to the
\* parent's child_runs and inherits the parent's client and trace_id.
CreateChild(p) ==
  /\ pc = "new"
  /\ Cardinality(DOMAIN tree) < MaxNodes
  /\ LET k == Cardinality(DOMAIN tree) + 1
         n == NodeRefs[k]
     IN tree' = [tree EXCEPT ![p].child_runs = Append(@, n)]
                  @@ (n :> Node(NodeIds[k], tree[p].trace_id, p, <<>>, tree[p].client))
  /\ UNCHANGED <<defects, ambient, env, fields, ctorVars, calls, sent, getResult, adapterVars>>

\* A malformed tree: a parent pointer set to any node or to none.
CorruptParent(n, m) ==
  /\ pc = "new"
  /\ defects < MaxDefects
  /\ tree[n].parent_run # m
  /\ tree' = [tree EXCEPT ![n].parent_run = m]
  /\ defects' = defects + 1
  /\ UNCHANGED <<ambient, env, fields, ctorVars, calls, sent, getResult, adapterVars>>

\* A malformed tree: a node listed once more, in any node's child_runs.
CorruptChildRuns(n, m) ==
  /\ pc = "new"
  /\ defects < MaxDefects
  /\ tree' = [tree EXCEPT ![n].child_runs = Append(@, m)]
  /\ defects' = defects + 1
  /\ UNCHANGED <<ambient, env, fields, ctorVars, calls, sent, getResult, adapterVars>>

\* A malformed tree: two node objects with the same id.
CorruptId(n, m) ==
  /\ pc = "new"
  /\ defects < MaxDefects
  /\ tree[n].id # tree[m].id
  /\ tree' = [tree EXCEPT ![n].id = tree[m].id]
  /\ defects' = defects + 1
  /\ UNCHANGED <<ambient, env, fields, ctorVars, calls, sent, getResult, adapterVars>>

\* A malformed tree: a node that is not a root carries a trace_id of its own.
CorruptTraceId(n) ==
  /\ pc = "new"
  /\ defects < MaxDefects
  /\ tree[n].trace_id # tree[n].id
  /\ tree' = [tree EXCEPT ![n].trace_id = tree[n].id]
  /\ defects' = defects + 1
  /\ UNCHANGED <<ambient, env, fields, ctorVars, calls, sent, getResult, adapterVars>>

\* The execution enters or leaves a traceable function: the context that
\* getCurrentRunTree() reads now holds node p, or none.
SetAmbient(p) ==
  /\ pc = "new"
  /\ ambient # p
  /\ ambient' = p
  /\ UNCHANGED <<tree, defects, env, fields, ctorVars, calls, sent, getResult, adapterVars>>

\* ------------------------------------------------------ constructor
\* Mutant: the probe's failure is not caught.
GetTraceableRunTree_NoCatch(p) ==
  IF p = "throws" THEN [threw |-> TRUE, value |-> NoNode]
  ELSE IF p = "absent" THEN [threw |-> FALSE, value |-> NoNode]
  ELSE [threw |-> FALSE, value |-> p]

\* getTraceableRunTree: the probe's failure is caught and becomes undefined.
GetTraceableRunTree(p) ==
  IF p = "throws" THEN [threw |-> FALSE, value |-> NoNode]
  ELSE IF p = "absent" THEN [threw |-> FALSE, value |-> NoNode]
  ELSE [threw |-> FALSE, value |-> p]

\* Mutant: the two environment variables are consulted in the other order.
ResolveProjectName_SessionFirst(f, e) ==
  Coalesce(Get(f, "projectName"),
           Coalesce(Get(e, "LANGCHAIN_SESSION"), Get(e, "LANGCHAIN_PROJECT")))

\* projectName ?? LANGCHAIN_PROJECT ?? LANGCHAIN_SESSION
ResolveProjectName(f, e) ==
  Coalesce(Get(f, "projectName"),
           Coalesce(Get(e, "LANGCHAIN_PROJECT"), Get(e, "LANGCHAIN_SESSION")))

\* client ?? new Client({})
ResolveClient(f) == Coalesce(Get(f, "client"), DefaultClient)

\* Lines 62-78: the fields, the probe, and the entry to the root walk.
Construct ==
  /\ pc = "new"
  /\ LET r == GetTraceableRunTree(ambient) IN
       /\ projectName' = ResolveProjectName(fields, env)
       /\ exampleId' = Get(fields, "exampleId")
       /\ client' = ResolveClient(fields)
       /\ traceableTree' = r.value
       /\ rootRun' = r.value
       /\ pc' = IF r.threw THEN "failed"
                ELSE IF r.value = NoNode THEN "ready" ELSE "rootwalk"
  /\ UNCHANGED <<tree, defects, ambient, env, fields, visited, queue, runMap,
                 setLog, calls, sent, getResult, adapterVars>>

\* Mutant: the upward walk is an if, not a while: it climbs one link at most.
RootWalkGoesOn_OneLevel(n, v) == n.parent_run # NoNode /\ v = {}

\* Mutant: the upward walk keeps no visited set.
RootWalkGoesOn_NoVisited(n, v) == n.parent_run # NoNode

\* Mutant: no upward walk, the ambient node is taken as the root.
RootWalkGoesOn_Never(n, v) == FALSE

\* Whether the walk goes on from node n with the ids in v visited.
RootWalkGoesOn(n, v) == n.parent_run # NoNode /\ n.id \notin v

\* Lines 80-89: one turn of the upward walk, or its end.
RootWalkStep ==
  /\ pc = "rootwalk"
  /\ LET n == tree[rootRun] IN
       IF RootWalkGoesOn(n, visited)
       THEN /\ visited' = visited \cup {n.id}
            /\ rootRun' = n.parent_run
            /\ UNCHANGED <<pc, queue>>
       ELSE /\ visited' = {}
            /\ queue' = <<rootRun>>
            /\ pc' = "flatten"
            /\ UNCHANGED rootRun
  /\ UNCHANGED <<tree, defects, ambient, env, fields, projectName, exampleId,
                 client, traceableTree, runMap, setLog, calls, sent, getResult, adapterVars>>

\* Whether the node taken from the queue is skipped.
FlattenSkips(current, v) == current = NoNode \/ tree[current].id \in v

\* this.runMap.set(id, node)
RunMapSet(m, id, n) == [k \in DOMAIN m \cup {id} |-> IF k = id THEN n ELSE m[k]]

\* Mutant: the node is put into the run map before the visited test, which
\* then only decides whether its children are enqueued.
FlattenStep_SetsBeforeSkip ==
  /\ pc = "flatten"
  /\ queue # <<>>
  /\ LET current == Head(queue) IN
       IF current = NoNode
       THEN /\ queue' = Tail(queue)
            /\ UNCHANGED <<visited, runMap, setLog>>
       ELSE /\ runMap' = RunMapSet(runMap, tree[current].id, current)
            /\ IF FlattenSkips(current, visited)
               THEN /\ queue' = Tail(queue)
                    /\ UNCHANGED <<visited, setLog>>
               ELSE /\ visited' = visited \cup {tree[current].id}
                    /\ setLog' = Append(setLog, tree[current].id)
                    /\ queue' = Tail(queue) \o tree[current].child_runs
  /\ UNCHANGED <<tree, defects, ambient, env, fields, pc, projectName, exampleId,
                 client, traceableTree, rootRun, calls, sent, getResult, adapterVars>>

\* Lines 90-100: one turn of the breadth-first flatten.
FlattenStep ==
  /\ pc = "flatten"
  /\ queue # <<>>
  /\ LET current == Head(queue) IN
       IF FlattenSkips(current, visited)
       THEN /\ queue' = Tail(queue)
            /\ UNCHANGED <<visited, runMap, setLog>>
       ELSE /\ visited' = visited \cup {tree[current].id}
            /\ runMap' = RunMapSet(runMap, tree[current].id, current)
            /\ setLog' = Append(setLog, tree[current].id)
            /\ queue' = Tail(queue) \o tree[current].child_runs
  /\ UNCHANGED <<tree, defects, ambient, env, fields, pc, projectName, exampleId,
                 client, traceableTree, rootRun, calls, sent, getResult, adapterVars>>

\* Mutant: the tracer's own client wins over the tree's.
AdoptedClient_KeepOwn(t, own) == Coalesce(own, t.client)

\* traceableTree.client ?? this.client
AdoptedClient(t, own) == Coalesce(t.client, own)

\* Mutant: the adoption is written the other way round, onto the tree.
AdoptClient_WritesBack ==
  /\ pc = "flatten"
  /\ queue = <<>>
  /\ client' = AdoptedClient(tree[traceableTree], client)
  /\ tree' = [tree EXCEPT ![traceableTree].client = AdoptedClient(tree[traceableTree], client)]
  /\ pc' = "ready"
  /\ UNCHANGED <<defects, ambient, env, fields, projectName, exampleId,
                 traceableTree, rootRun, visited, queue, runMap, setLog, calls,
                 sent, getResult, adapterVars>>

\* Line 102: the end of the flatten and the client adoption.
AdoptClient ==
  /\ pc = "flatten"
  /\ queue = <<>>
  /\ client' = AdoptedClient(tree[traceableTree], client)
  /\ pc' = "ready"
  /\ UNCHANGED <<tree, defects, ambient, env, fields, projectName, exampleId,
                 traceableTree, rootRun, visited, queue, runMap, setLog, calls,
                 sent, getResult, adapterVars>>

\* ------------------------------------------------------------- getRun
\* this.runMap.get(id)
RunMapGet(m, id) == IF id \in DOMAIN m THEN m[id] ELSE Undefined

\* Mutant: an unknown id is an error.
GetRunResult_Throws(m, id) ==
  IF id \in DOMAIN m THEN [id |-> id, outcome |-> "returned", value |-> m[id]]
  ELSE [id |-> id, outcome |-> "threw", value |-> Undefined]

\* getRun, lines 146-148: the lookup's value is returned as it is.
GetRunResult(m, id) == [id |-> id, outcome |-> "returned", value |-> RunMapGet(m, id)]

LookupIds == {NodeIds[i] : i \in 1..(MaxNodes + 1)}

GetRun ==
  /\ pc = "ready"
  /\ \E id \in LookupIds : getResult' = GetRunResult(runMap, id)
  /\ UNCHANGED <<tree, defects, ambient, env, fields, ctorVars, calls, sent, adapterVars>>

\* ------------------------------------------------- payload conversion
\* getRuntimeEnvironment(): the host's description, an opaque value.
RuntimeEnvironment == "runtimeEnvironment"

\* JavaScript truthiness of a string or undefined.
Truthy(v) == v # Undefined /\ v # ""

\* Mutant: the example is linked whether or not the run has a parent.
ConvertToCreate_AlwaysExample(run, example_id, runtime, session) ==
  LET extra == SpreadInto(IF "extra" \in DOMAIN run THEN run.extra ELSE EmptyObject,
                          "runtime" :> runtime)
      withExtra == SpreadInto(run, "extra" :> extra)
      noChildren == WithUndefined(withExtra, "child_runs")
      withSession == With(noChildren, "session_name", session)
  IN With(withSession, "reference_example_id", example_id)

\* _convertToCreate, lines 110-119.
ConvertToCreate(run, example_id, runtime, session) ==
  LET extra == SpreadInto(IF "extra" \in DOMAIN run THEN run.extra ELSE EmptyObject,
                          "runtime" :> runtime)
      withExtra == SpreadInto(run, "extra" :> extra)
      noChildren == WithUndefined(withExtra, "child_runs")
      withSession == With(noChildren, "session_name", session)
  IN With(withSession, "reference_example_id",
          IF Truthy(Get(run, "parent_run_id")) THEN Undefined ELSE example_id)

UpdateKeys ==
  <<"end_time", "error", "outputs", "events", "inputs", "trace_id", "dotted_order",
    "parent_run_id">>

RECURSIVE CopyKeys(_, _, _)
CopyKeys(run, keys, acc) ==
  IF keys = <<>> THEN acc
  ELSE CopyKeys(run, Tail(keys), With(acc, Head(keys), Get(run, Head(keys))))

\* Mutant: the update payload is the record with the update fields on top.
ConvertToUpdate_WholeRecord(run) == SpreadInto(run, CopyKeys(run, UpdateKeys, EmptyObject))

\* The runUpdate literal of onRunUpdate, lines 133-142.
ConvertToUpdate(run) == CopyKeys(run, UpdateKeys, EmptyObject)

\* ------------------------------------------------------------ the runs
\* The records the dispatch base passes: r1 is a root, r2 its child.
RunBase(id) ==
  [id |-> id, name |-> "chain", inputs |-> "in:" \o id, child_runs |-> <<>>,
   child_execution_order |-> 1, start_time |-> "t0"]

Runs ==
  { SpreadInto(RunBase("r1"),
               [child_runs |-> <<"r2">>,
                extra |-> [metadata |-> "m", runtime |-> "stale"],
                end_time |-> "t9", outputs |-> "out", events |-> "ev",
                trace_id |-> "r1", dotted_order |-> "t0r1",
                session_name |-> "recordSession",
                reference_example_id |-> "recordExample"]),
    SpreadInto(RunBase("r2"),
               [parent_run_id |-> "r1", extra |-> [metadata |-> "m"],
                trace_id |-> "r1", dotted_order |-> "t0r1.t1r2",
                session_name |-> "recordSession",
                reference_example_id |-> "recordExample"]),
    SpreadInto(RunBase("r2"),
               [parent_run_id |-> "r1", end_time |-> "t9", error |-> "boom",
                events |-> "ev"]) }

\* ----------------------------------------------------------- handlers
ClientErrors == {"timeout", "rejected429"}

Call(op, run, at, example_id, payload) ==
  [op |-> op, run |-> run, pc |-> at, example_id |-> example_id,
   payload |-> payload, error |-> Undefined]

Send(cl, op, key, payload, call) ==
  [client |-> cl, op |-> op, key |-> key, payload |-> payload, call |-> call,
   result |-> "pending"]

\* Mutant: an update for a key already updated is coalesced away.
Forward_Coalesce(log, entry) ==
  IF entry.op = "updateRun"
     /\ \E j \in 1..Len(log) : log[j].op = "updateRun" /\ log[j].key = entry.key
  THEN log
  ELSE Append(log, entry)

\* Mutant: the requests are handed to the client last in, first out.
Forward_Stack(log, entry) == <<entry>> \o log

\* One call of the client: it receives the request when the call is made.
Forward(log, entry) == Append(log, entry)

handlerFrame == <<tree, defects, ambient, env, fields, ctorVars, getResult, adapterVars>>

\* onRunCreate up to the await inside _convertToCreate (lines 124-127, 110-114).
OnRunCreate(run) ==
  /\ pc = "ready"
  /\ Len(calls) < MaxCalls
  /\ calls' = Append(calls, Call("create", run, "awaitRuntime", exampleId, EmptyObject))
  /\ UNCHANGED <<sent, handlerFrame>>

\* Mutant: _convertToCreate edits the record in place and returns it.
ConvertResume_InPlace(i) ==
  /\ calls[i].pc = "awaitRuntime"
  /\ LET payload == ConvertToCreate(calls[i].run, calls[i].example_id,
                                    RuntimeEnvironment, projectName) IN
       calls' = [calls EXCEPT ![i].payload = payload, ![i].run = payload,
                              ![i].pc = "awaitConvert"]
  /\ UNCHANGED <<sent, handlerFrame>>

\* _convertToCreate resumes with the runtime and returns the payload (115-119).
ConvertResume(i) ==
  /\ calls[i].pc = "awaitRuntime"
  /\ calls' = [calls EXCEPT
       ![i].payload = ConvertToCreate(calls[i].run, calls[i].example_id,
                                      RuntimeEnvironment, projectName),
       ![i].pc = "awaitConvert"]
  /\ UNCHANGED <<sent, handlerFrame>>

\* onRunCreate resumes with the payload and calls client.createRun (line 129).
SendCreate(i) ==
  /\ calls[i].pc = "awaitConvert"
  /\ sent' = Forward(sent, Send(client, "createRun", Undefined, calls[i].payload, i))
  /\ calls' = [calls EXCEPT ![i].pc = "awaitClient"]
  /\ UNCHANGED handlerFrame

\* Mutant: onRunUpdate looks the record up in the run map first and fails
\* for an id it does not hold, sending nothing.
OnRunUpdate_RequiresKnown(run) ==
  /\ pc = "ready"
  /\ Len(calls) < MaxCalls
  /\ LET payload == ConvertToUpdate(run) IN
       IF run.id \in DOMAIN runMap
       THEN /\ calls' = Append(calls, Call("update", run, "awaitClient", Undefined, payload))
            /\ sent' = Forward(sent, Send(client, "updateRun", run.id, payload,
                                          Len(calls) + 1))
       ELSE /\ calls' = Append(calls, [Call("update", run, "rejected", Undefined, payload)
                                        EXCEPT !.error = "unknown run"])
            /\ sent' = sent
  /\ UNCHANGED handlerFrame

\* onRunUpdate up to its await: the payload and client.updateRun (133-143).
OnRunUpdate(run) ==
  /\ pc = "ready"
  /\ Len(calls) < MaxCalls
  /\ LET payload == ConvertToUpdate(run) IN
       /\ calls' = Append(calls, Call("update", run, "awaitClient", Undefined, payload))
       /\ sent' = Forward(sent, Send(client, "updateRun", run.id, payload,
                                     Len(calls) + 1))
  /\ UNCHANGED handlerFrame

\* Mutant: the client's failure is caught and the handler resolves.
Settle_Swallow(c, result) == [c EXCEPT !.pc = "resolved"]

\* How the awaited client call settles the handler's own promise.
Settle(c, result) ==
  IF result = "ok" THEN [c EXCEPT !.pc = "resolved"]
  ELSE [c EXCEPT !.pc = "rejected", !.error = result]

\* The client answers; the handler awaiting it resolves or rejects (129, 143).
ClientResponds(i) ==
  /\ calls[i].pc = "awaitClient"
  /\ \E j \in 1..Len(sent), result \in {"ok"} \cup ClientErrors :
       /\ sent[j].call = i
       /\ sent[j].result = "pending"
       /\ sent' = [sent EXCEPT ![j].result = result]
       /\ calls' = [calls EXCEPT ![i] = Settle(calls[i], result)]
  /\ UNCHANGED handlerFrame

\* ------------------------------------------------- the dispatch base
\* What starts the runs and calls the handlers: it gives a run its id, its
\* place in the trace and its dotted_order, and calls onRunCreate with it.
RunIds == <<"r1", "r2", "r3", "r4", "r5">>
DigitStr == <<"0", "1", "2", "3", "4", "5", "6", "7", "8", "9">>

\* The time of the k-th start, fixed width: the clock never gives one time twice.
StampStr(k) == DigitStr[(k \div 10) + 1] \o DigitStr[(k % 10) + 1]

\* One segment of a dotted order: the start time and the id of a run.
Segment(k) == StampStr(k) \o RunIds[k]

\* Mutant: a child is given its parent's dotted_order, as it is its trace_id.
DottedOrder_Inherits(parentOrder, k) ==
  IF parentOrder = Undefined THEN Segment(k) ELSE parentOrder

\* The dotted_order of the k-th run: its parent's, a separator, its segment.
DottedOrder(parentOrder, k) ==
  IF parentOrder = Undefined THEN Segment(k) ELSE parentOrder \o "." \o Segment(k)

CreateCalls == {i \in 1..Len(calls) : calls[i].op = "create"}

\* The record of the next run started, under the run of create call p, or
\* as a root when p is 0.
NewRun(p) ==
  LET k == Cardinality(CreateCalls) + 1
      root == [id |-> RunIds[k], name |-> "chain", inputs |-> "in:" \o RunIds[k],
               child_runs |-> <<>>, child_execution_order |-> k,
               start_time |-> StampStr(k), trace_id |-> RunIds[k],
               dotted_order |-> DottedOrder(Undefined, k)]
  IN IF p = 0 THEN root
     ELSE SpreadInto(root,
            [parent_run_id |-> calls[p].run.id, trace_id |-> calls[p].run.trace_id,
             dotted_order |-> DottedOrder(calls[p].run.dotted_order, k)])

\* A run starts: the dispatch base builds its record and calls onRunCreate,
\* which runs up to the await inside _convertToCreate (124-127, 110-114).
StartRun(p) ==
  /\ pc = "ready"
  /\ Len(calls) < MaxRuns
  /\ p = 0 \/ p \in CreateCalls
  /\ calls' = Append(calls, Call("create", NewRun(p), "awaitRuntime", exampleId, EmptyObject))
  /\ UNCHANGED <<sent, handlerFrame>>

\* A run ends: the dispatch base calls onRunUpdate with the finished record.
EndRun(i) ==
  /\ i \in CreateCalls
  /\ OnRunUpdate(SpreadInto(calls[i].run, [end_time |-> "t9", outputs |-> "out"]))

\* ------------------------------------------------- RunnableTraceable
\* Functions as JavaScript objects: traceable() of langsmith marks the
\* function it returns with the own property "langsmith:traceable".
PlainFunc == "name" :> "plain"
TracedFunc == ("name" :> "traced") @@ ("langsmith:traceable" :> "traceableConfig")
TracedOther == ("name" :> "other") @@ ("langsmith:traceable" :> "traceableConfig")
Funcs == {PlainFunc, TracedFunc, TracedOther}

\* isTraceableFunction(x), line 178.
IsTraceableFunction(f) == "langsmith:traceable" \in DOMAIN f

ConfigError ==
  "RunnableTraceable requires a function that is wrapped in traceable higher-order function"

NoAdapter ==
  [status |-> "none", given |-> EmptyObject, func |-> EmptyObject, error |-> Undefined]

\* Mutant: the constructor takes the function without the capability check.
ConstructAdapter_NoCheck(f) ==
  [status |-> "constructed", given |-> f, func |-> f, error |-> Undefined]

\* The constructor, lines 175-185: the check, the throw, the assignment.
ConstructAdapter(f) ==
  IF ~IsTraceableFunction(f)
  THEN [status |-> "failed", given |-> f, func |-> EmptyObject, error |-> ConfigError]
  ELSE [status |-> "constructed", given |-> f, func |-> f, error |-> Undefined]

adapterFrame == <<tree, defects, ambient, env, fields, ctorVars, calls, sent, getResult>>

\* new RunnableTraceable({ func: f })
NewRunnableTraceable(f) ==
  /\ adapter.status = "none"
  /\ adapter' = ConstructAdapter(f)
  /\ UNCHANGED <<invokes, funcCalls, adapterFrame>>

\* options ?? {}, line 188
ResolveOptions(args) == IF "options" \in DOMAIN args THEN args.options ELSE EmptyObject

\* The defaults of the host's configuration resolution.
DefaultConfig == [recursionLimit |-> "25"]

\* this._getOptionsList(options, 1)[0]: the options over the host's defaults.
GetOptionsList(options) == SpreadInto(DefaultConfig, options)

\* getCallbackManagerForConfig(config): the manager made of the
\* configuration's callbacks, undefined when it has none.
GetCallbackManagerForConfig(config) ==
  IF "callbacks" \in DOMAIN config THEN "manager:" \o config.callbacks ELSE Undefined

\* Mutant: the configuration is passed on as it is, its callbacks underived.
FuncArguments_ConfigOnly(config, callbacks, input) == <<config, input>>

\* The argument list of line 189-192: { ...config, callbacks }, input.
FuncArguments(config, callbacks, input) == <<With(config, "callbacks", callbacks), input>>

FuncResults == {"out1", "out2"}
FuncErrors == {"TypeError", "failedTool"}

InvokeArgs ==
  { SpreadInto([input |-> i], o) :
      i \in {"in1", "in2"},
      o \in { EmptyObject,
              [options |-> EmptyObject],
              [options |-> [tags |-> "t"]],
              [options |-> [callbacks |-> "handlers", recursionLimit |-> "5"]] } }

\* invoke up to its await of getCallbackManagerForConfig (lines 187-190).
Invoke(args) ==
  /\ adapter.status = "constructed"
  /\ Len(invokes) < MaxInvokes
  /\ invokes' = Append(invokes,
       [args |-> args, config |-> GetOptionsList(ResolveOptions(args)),
        pc |-> "awaitCallbacks", value |-> Undefined, error |-> Undefined])
  /\ UNCHANGED <<adapter, funcCalls, adapterFrame>>

\* invoke resumes with the callbacks and calls the function (lines 189-192).
CallFunc(k) ==
  /\ invokes[k].pc = "awaitCallbacks"
  /\ LET config == invokes[k].config
         a == FuncArguments(config, GetCallbackManagerForConfig(config),
                            invokes[k].args.input)
     IN funcCalls' = Append(funcCalls,
          [invoke |-> k, func |-> adapter.func, arg1 |-> a[1], arg2 |-> a[2],
           result |-> "pending"])
  /\ invokes' = [invokes EXCEPT ![k].pc = "awaitFunc"]
  /\ UNCHANGED <<adapter, adapterFrame>>

\* How the awaited function settles invoke's own promise (line 189, 193).
InvokeSettle(inv, result) ==
  IF result \in FuncErrors
  THEN [inv EXCEPT !.pc = "rejected", !.error = result]
  ELSE [inv EXCEPT !.pc = "resolved", !.value = result]

\* The function returns or throws; the invoke awaiting it settles.
FuncSettles(k) ==
  /\ invokes[k].pc = "awaitFunc"
  /\ \E c \in 1..Len(funcCalls), result \in FuncResults \cup FuncErrors :
       /\ funcCalls[c].invoke = k
       /\ funcCalls[c].result = "pending"
       /\ funcCalls' = [funcCalls EXCEPT ![c].result = result]
       /\ invokes' = [invokes EXCEPT ![k] = InvokeSettle(invokes[k], result)]
  /\ UNCHANGED <<adapter, adapterFrame>>

\* --------------------------------------------------- specifications
NoGet == [id |-> Undefined, outcome |-> "none", value |-> Undefined]

InitCtor ==
  /\ pc = "new"
  /\ projectName = Undefined
  /\ exampleId = Undefined
  /\ client = Undefined
  /\ traceableTree = NoNode
  /\ rootRun = NoNode
  /\ visited = {}
  /\ queue = <<>>
  /\ runMap = EmptyObject
  /\ setLog = <<>>
  /\ calls = <<>>
  /\ sent = <<>>
  /\ getResult = NoGet
  /\ adapter = NoAdapter
  /\ invokes = <<>>
  /\ funcCalls = <<>>

\* The hydration specification: the ambient mechanism grows a run tree,
\* possibly malformed, and a tracer is constructed inside any node of it.
InitHydrate ==
  /\ InitCtor
  /\ \E c \in {Undefined, TreeClient} :
       tree = (NodeRefs[1] :> Node(NodeIds[1], NodeIds[1], NoNode, <<>>, c))
  /\ defects = 0
  /\ ambient = "throws"
  /\ env = EmptyObject
  /\ fields = EmptyObject

NextHydrate ==
  \/ \E p \in DOMAIN tree : CreateChild(p)
  \/ \E n \in DOMAIN tree, m \in DOMAIN tree \cup {NoNode} : CorruptParent(n, m)
  \/ \E n \in DOMAIN tree, m \in DOMAIN tree : CorruptChildRuns(n, m)
  \/ \E n \in DOMAIN tree, m \in DOMAIN tree : CorruptId(n, m)
  \/ \E n \in DOMAIN tree : CorruptTraceId(n)
  \/ \E p \in {"throws", "absent"} \cup DOMAIN tree : SetAmbient(p)
  \/ Construct
  \/ RootWalkStep
  \/ FlattenStep
  \/ AdoptClient
  \/ GetRun

SpecHydrate == InitHydrate /\ [][NextHydrate]_vars

\* The constructor is synchronous: once entered it runs to its end.
FairSpecHydrate ==
  SpecHydrate /\ WF_vars(RootWalkStep) /\ WF_vars(FlattenStep) /\ WF_vars(AdoptClient)

\* The adapter specification: a RunnableTraceable is constructed around any
\* function and invoked.
InitAdapter ==
  /\ InitCtor
  /\ tree = EmptyObject
  /\ defects = 0
  /\ ambient = "throws"
  /\ env = EmptyObject
  /\ fields = EmptyObject

NextAdapter ==
  \/ \E f \in Funcs : NewRunnableTraceable(f)
  \/ \E args \in InvokeArgs : Invoke(args)
  \/ \E k \in 1..Len(invokes) : CallFunc(k)
  \/ \E k \in 1..Len(invokes) : FuncSettles(k)

SpecAdapter == InitAdapter /\ [][NextAdapter]_vars

\* The ordering specification: the dispatch base starts runs below one
\* another and ends them, and the tracer reports them.
InitOrder ==
  /\ InitCtor
  /\ tree = EmptyObject
  /\ defects = 0
  /\ ambient = "throws"
  /\ env = EmptyObject
  /\ \E e \in {Undefined, "example1"} : fields = With(EmptyObject, "exampleId", e)

NextOrder ==
  \/ Construct
  \/ \E p \in 0..MaxRuns : StartRun(p)
  \/ \E i \in 1..Len(calls) : ConvertResume(i)
  \/ \E i \in 1..Len(calls) : SendCreate(i)
  \/ \E i \in 1..Len(calls) : EndRun(i)
  \/ \E i \in 1..Len(calls) : ClientResponds(i)

SpecOrder == InitOrder /\ [][NextOrder]_vars

\* The tracer specification: a tracer is constructed in a process that may
\* be inside the traceable chain a -> b -> c, and its handlers are called.
SampleTree(c) ==
  (NodeRefs[1] :> Node(NodeIds[1], NodeIds[1], NoNode, <<NodeRefs[2]>>, c))
  @@ (NodeRefs[2] :> Node(NodeIds[2], NodeIds[1], NodeRefs[1], <<NodeRefs[3]>>, c))
  @@ (NodeRefs[3] :> Node(NodeIds[3], NodeIds[1], NodeRefs[2], <<>>, c))

FieldsSet ==
  { With(With(With(EmptyObject, "exampleId", e), "projectName", p), "client", c) :
      e \in {Undefined, "example1"}, p \in {Undefined, "fieldProject"},
      c \in {Undefined, UserClient} }

Envs ==
  { With(With(EmptyObject, "LANGCHAIN_PROJECT", p), "LANGCHAIN_SESSION", s) :
      p \in {Undefined, "envProject"}, s \in {Undefined, "envSession"} }

\* Where the tracer is constructed: outside any traceable function (the
\* probe throws, or yields nothing), or inside node c of the chain.
Worlds ==
  { [ambient |-> "throws", tree |-> EmptyObject],
    [ambient |-> "absent", tree |-> EmptyObject],
    [ambient |-> NodeRefs[3], tree |-> SampleTree(Undefined)],
    [ambient |-> NodeRefs[3], tree |-> SampleTree(TreeClient)] }

\* The example id (line 70), the project name (lines 66-69) and the client
\* (lines 71, 102) are settled by separate statements: an initial state
\* varies the inputs of one of them and leaves the others unset.
Init ==
  /\ InitCtor
  /\ defects = 0
  /\ env \in Envs
  /\ fields \in FieldsSet
  /\ \E w \in Worlds : ambient = w.ambient /\ tree = w.tree
  /\ LET exampleUnset == "exampleId" \notin DOMAIN fields
         projectUnset == "projectName" \notin DOMAIN fields /\ env = EmptyObject
         clientUnset == "client" \notin DOMAIN fields /\ ambient = "throws"
     IN \/ projectUnset /\ clientUnset
        \/ exampleUnset /\ clientUnset
        \/ exampleUnset /\ projectUnset

Next ==
  \/ Construct
  \/ RootWalkStep
  \/ FlattenStep
  \/ AdoptClient
  \/ \E run \in Runs : OnRunCreate(run)
  \/ \E i \in 1..Len(calls) : ConvertResume(i)
  \/ \E i \in 1..Len(calls) : SendCreate(i)
  \/ \E run \in Runs : OnRunUpdate(run)
  \/ \E i \in 1..Len(calls) : ClientResponds(i)

Spec == Init /\ [][Next]_vars

\* ================================================================ claims
\* What the tracer was configured with, read off the constructor's inputs.
ConfiguredExample == Get(fields, "exampleId")

ConfiguredProject ==
  IF "projectName" \in DOMAIN fields THEN fields.projectName
  ELSE IF "LANGCHAIN_PROJECT" \in DOMAIN env THEN env.LANGCHAIN_PROJECT
  ELSE IF "LANGCHAIN_SESSION" \in DOMAIN env THEN env.LANGCHAIN_SESSION
  ELSE Undefined

CreateSends == {j \in 1..Len(sent) : sent[j].op = "createRun"}
UpdateSends == {j \in 1..Len(sent) : sent[j].op = "updateRun"}
RunOf(j) == calls[sent[j].call].run
SendsOf(i) == {j \in 1..Len(sent) : sent[j].call = i}

\* C1: every payload given to createRun has reference_example_id equal to the
\* configured exampleId when the record has no parent_run_id, and has it
\* unset when the record has a parent_run_id, whatever exampleId is configured.
C1_ExampleOnRootOnly ==
  \A j \in CreateSends :
    IF "parent_run_id" \in DOMAIN RunOf(j)
    THEN "reference_example_id" \notin DOMAIN sent[j].payload
    ELSE Get(sent[j].payload, "reference_example_id") = ConfiguredExample

\* C1 happens: with an exampleId configured, a root's create carried it and
\* a child's create did not.
C1_Witness ==
  /\ ConfiguredExample # Undefined
  /\ \E j \in CreateSends :
       /\ "parent_run_id" \notin DOMAIN RunOf(j)
       /\ sent[j].payload.reference_example_id = ConfiguredExample
  /\ \E j \in CreateSends :
       /\ "parent_run_id" \in DOMAIN RunOf(j)
       /\ "reference_example_id" \notin DOMAIN sent[j].payload

\* The payload p holds nothing that does not come from the record run
\* (the tracer's own additions aside).
DerivedFrom(p, run) ==
  /\ \A k \in DOMAIN p \ {"extra", "session_name", "reference_example_id"} :
       k \in DOMAIN run /\ p[k] = run[k]
  /\ "extra" \in DOMAIN p =>
       \A k \in DOMAIN p.extra \ {"runtime"} :
         "extra" \in DOMAIN run /\ k \in DOMAIN run.extra /\ p.extra[k] = run.extra[k]

\* C2: every send belongs to a call; a call has sent nothing before it
\* reaches its client call and exactly one request from then on, createRun
\* for onRunCreate and updateRun keyed by its own record's id for
\* onRunUpdate, with a payload derived from its own record only; and a call
\* that has not sent yet can always take its next step, whatever the other
\* calls in flight.
C2_ExactlyOnce ==
  /\ \A j \in 1..Len(sent) : sent[j].call \in 1..Len(calls)
  /\ \A i \in 1..Len(calls) :
       /\ Cardinality(SendsOf(i)) =
            IF calls[i].pc \in {"awaitRuntime", "awaitConvert"} THEN 0 ELSE 1
       /\ \A j \in SendsOf(i) :
            /\ sent[j].op = IF calls[i].op = "create" THEN "createRun" ELSE "updateRun"
            /\ calls[i].op = "update" => sent[j].key = calls[i].run.id
            /\ calls[i].op = "create" => sent[j].payload.id = calls[i].run.id
            /\ DerivedFrom(sent[j].payload, calls[i].run)
       /\ calls[i].pc = "awaitRuntime" => ENABLED ConvertResume(i)
       /\ calls[i].pc = "awaitConvert" => ENABLED SendCreate(i)

\* C2 happens: two onRunUpdate calls for the same id were in flight together
\* and each was forwarded.
C2_Witness ==
  \E i, k \in 1..Len(calls) :
    /\ i < k
    /\ calls[i].op = "update" /\ calls[k].op = "update"
    /\ calls[i].run.id = calls[k].run.id
    /\ calls[i].pc = "awaitClient" /\ calls[k].pc = "awaitClient"
    /\ SendsOf(i) # {} /\ SendsOf(k) # {} /\ SendsOf(i) # SendsOf(k)

UpdateKeySet == {UpdateKeys[i] : i \in 1..Len(UpdateKeys)}

\* C5: every payload given to updateRun has the eight update fields and no
\* other, each with the record's value (unset where the record has none).
C5_UpdatePayload ==
  \A j \in UpdateSends :
    /\ DOMAIN sent[j].payload \subseteq UpdateKeySet
    /\ \A k \in UpdateKeySet : Get(sent[j].payload, k) = Get(RunOf(j), k)
    /\ DOMAIN sent[j].payload \cap {"session_name", "child_runs", "reference_example_id"} = {}

\* C5 happens: an update was sent for a record that has a session_name, a
\* reference_example_id, child_runs, a trace_id and a dotted_order.
C5_Witness ==
  \E j \in UpdateSends :
    /\ {"session_name", "reference_example_id", "child_runs"} \subseteq DOMAIN RunOf(j)
    /\ RunOf(j).child_runs # <<>>
    /\ sent[j].payload.trace_id = RunOf(j).trace_id
    /\ sent[j].payload.dotted_order = RunOf(j).dotted_order
    /\ sent[j].payload.end_time = RunOf(j).end_time

RecordExtra(run) == IF "extra" \in DOMAIN run THEN run.extra ELSE EmptyObject

C7_FailurePropagates ==
  /\ \A j \in 1..Len(sent) :
       sent[j].result \in ClientErrors =>
         /\ calls[sent[j].call].pc = "rejected"
         /\ calls[sent[j].call].error = sent[j].result
  /\ \A i \in 1..Len(calls) :
       /\ calls[i].pc = "rejected" =>
            /\ Cardinality(SendsOf(i)) = 1
            /\ \A j \in SendsOf(i) : sent[j].result = calls[i].error
            /\ calls[i].error \in ClientErrors
       /\ calls[i].pc = "resolved" => \A j \in SendsOf(i) : sent[j].result = "ok"
       /\ (\E k \in 1..(i - 1) : calls[k].pc = "rejected") =>
            /\ Cardinality(SendsOf(i)) <= 1
            /\ calls[i].pc \in {"awaitClient", "resolved", "rejected"} => SendsOf(i) # {}
            /\ \A j \in SendsOf(i) :
                 sent[j].payload = IF calls[i].op = "update"
                                   THEN ConvertToUpdate(calls[i].run)
                                   ELSE ConvertToCreate(calls[i].run, ConfiguredExample,
                                                        RuntimeEnvironment, ConfiguredProject)

\* C7 happens: a create failed, and an update called after the failure was
\* sent and succeeded.
C7_Witness ==
  \E i, k \in 1..Len(calls) :
    /\ i < k
    /\ calls[i].op = "create" /\ calls[i].pc = "rejected"
    /\ calls[k].op = "update" /\ calls[k].pc = "resolved"
    /\ \E a \in SendsOf(i), b \in SendsOf(k) : a < b /\ sent[a].result = calls[i].error

NoAmbientTree == ambient \in {"throws", "absent"}

GivenOrDefaultClient ==
  IF "client" \in DOMAIN fields THEN fields.client ELSE DefaultClient

\* C8: when the probe throws or yields nothing, the constructor does not
\* fail: it ends ready, with an empty run map and the client given to it,
\* or its default.
C8_ProbeFailureSwallowed ==
  /\ pc # "failed"
  /\ NoAmbientTree /\ pc # "new" =>
       /\ pc = "ready"
       /\ runMap = EmptyObject
       /\ setLog = <<>>
       /\ client = GivenOrDefaultClient

\* C8 happens: a tracer given a client was constructed where the probe throws.
C8_Witness ==
  /\ ambient = "throws"
  /\ pc = "ready"
  /\ client = UserClient

\* The client the claim names: the ambient node's, when there is one and it
\* carries a client; the tracer's own otherwise.
ExpectedClient ==
  IF ~NoAmbientTree /\ tree[ambient].client # Undefined THEN tree[ambient].client
  ELSE GivenOrDefaultClient

\* C9: once constructed the tracer's client is the ambient tree's when it
\* carries one and the tracer's own otherwise, and every request went to it.
C9_ClientAdoption ==
  /\ pc = "ready" => client = ExpectedClient
  /\ \A j \in 1..Len(sent) : sent[j].client = ExpectedClient
  /\ \A j, k \in 1..Len(sent) : sent[j].client = sent[k].client

\* C9 happens: a tracer given its own client inside a tree that carries
\* another sent a create and an update to the tree's client.
C9_Witness ==
  /\ Get(fields, "client") = UserClient
  /\ \E j \in CreateSends : sent[j].client = TreeClient
  /\ \E j \in UpdateSends : sent[j].client = TreeClient

\* ------------------------------------------------- hydration claims
Heap == DOMAIN tree

RECURSIVE ParentChain(_, _)
\* The nodes on n's parent chain, n included, walked for at most k links.
ParentChain(n, k) ==
  IF n = NoNode THEN {}
  ELSE IF k = 0 THEN {n}
  ELSE {n} \cup ParentChain(tree[n].parent_run, k - 1)

RECURSIVE ChainEnds(_, _)
\* Whether n's parent chain reaches a node without parent within k links.
ChainEnds(n, k) ==
  IF tree[n].parent_run = NoNode THEN TRUE
  ELSE IF k = 0 THEN FALSE
  ELSE ChainEnds(tree[n].parent_run, k - 1)

ChildSet(p) == {tree[p].child_runs[i] : i \in 1..Len(tree[p].child_runs)}

AcyclicParents == \A n \in Heap : ChainEnds(n, Cardinality(Heap))
ParentsListChildren ==
  \A n \in Heap : tree[n].parent_run # NoNode => n \in ChildSet(tree[n].parent_run)
DistinctIds == \A n, m \in Heap : tree[n].id = tree[m].id => n = m
\* It is a tree: a node is listed only by its parent.
ChildrenNameParent == \A p \in Heap : \A n \in ChildSet(p) : tree[n].parent_run = p

WellFormedTree ==
  AcyclicParents /\ ParentsListChildren /\ DistinctIds /\ ChildrenNameParent

NoDuplicates(q) == \A i, j \in 1..Len(q) : q[i] = q[j] => i = j

\* C4: the constructor, once inside the root walk or the flatten, reaches
\* its end, whatever the tree; and no id is put into the run map twice.
C4_HydrationTerminates ==
  /\ [](NoDuplicates(setLog))
  /\ (pc \in {"rootwalk", "flatten"}) ~> (pc = "ready")

\* C4 happens: the constructor ended inside a tree whose parent chain from
\* the ambient node is cyclic.
C4_Witness ==
  /\ pc = "ready"
  /\ ~NoAmbientTree
  /\ ~ChainEnds(ambient, Cardinality(Heap))
  /\ setLog # <<>>

\* C10: getRun never throws: it returns the run map's entry for the id, or
\* undefined when there is none; and a getRun changes nothing but its result.
C10_GetRunTotal ==
  /\ [](/\ getResult.outcome \in {"none", "returned"}
        /\ getResult.outcome = "returned" =>
             getResult.value = IF getResult.id \in DOMAIN runMap
                               THEN runMap[getResult.id] ELSE Undefined)
  /\ [][getResult' # getResult =>
          UNCHANGED <<tree, defects, ambient, env, fields, ctorVars, calls, sent,
                      adapterVars>>]_vars

\* C10 happens: in a hydrated tracer, getRun of an id that is not in the run map.
C10_Witness ==
  /\ runMap # EmptyObject
  /\ getResult.outcome = "returned"
  /\ getResult.id \notin DOMAIN runMap
  /\ getResult.value = Undefined

\* ------------------------------------------- handler claims, continued
\* The update calls for an id the run map does not hold and no onRunCreate
\* was ever called with.
UnknownUpdates ==
  {i \in 1..Len(calls) :
     /\ calls[i].op = "update"
     /\ calls[i].run.id \notin DOMAIN runMap
     /\ \A k \in 1..Len(calls) :
          calls[k].op = "create" => calls[k].run.id # calls[i].run.id}

\* C11: an onRunUpdate for an id that is not in the run map and was never
\* created does not fail inside the tracer: it has made exactly one updateRun
\* request, keyed by that id, and it is rejected only with the failure the
\* client gave that request.
C11_UnknownUpdateSent ==
  \A i \in UnknownUpdates :
    /\ calls[i].pc \in {"awaitClient", "resolved", "rejected"}
    /\ Cardinality(SendsOf(i)) = 1
    /\ \A j \in SendsOf(i) :
         /\ sent[j].op = "updateRun"
         /\ sent[j].key = calls[i].run.id
         /\ calls[i].pc = "rejected" =>
              sent[j].result \in ClientErrors /\ calls[i].error = sent[j].result
         /\ sent[j].result = "ok" => calls[i].pc = "resolved"

\* C11 happens: in a tracer with a hydrated run map, an update of an id the
\* map does not hold resolved, and another such update was rejected.
C11_Witness ==
  /\ runMap # EmptyObject
  /\ \E i, k \in UnknownUpdates :
       /\ calls[i].pc = "resolved"
       /\ calls[k].pc = "rejected"
       /\ \A c \in 1..Len(calls) : calls[c].op = "update"

\* C19 as stated: when onRunCreate was called with a record before
\* onRunUpdate was, the client has received the record's createRun before it
\* receives its updateRun, whether or not the caller waited in between.
C19_CreateFirst ==
  \A i, k \in 1..Len(calls) :
    /\ i < k
    /\ calls[i].op = "create" /\ calls[k].op = "update"
    /\ calls[i].run.id = calls[k].run.id
    => \A b \in SendsOf(k) : \E a \in SendsOf(i) : a < b

\* C19, amended: when onRunUpdate is called with a record after an
\* onRunCreate with that record has completed, resolved or rejected, the
\* client has received that createRun before it receives the updateRun.
C19_CreateFirstWhenAwaited ==
  [][\A k \in (Len(calls) + 1)..Len(calls') :
       calls'[k].op = "update" =>
         \A i \in 1..Len(calls) :
           /\ calls[i].op = "create"
           /\ calls[i].run.id = calls'[k].run.id
           /\ calls[i].pc \in {"resolved", "rejected"}
           => \A b \in 1..Len(sent') :
                sent'[b].call = k =>
                  \E a \in 1..(b - 1) : sent'[a].call = i /\ sent'[a].op = "createRun"]_vars

\* C19 happens: a create of a record resolved, and the update of the same
\* record reached the client after it.
C19_Witness ==
  \E i, k \in 1..Len(calls) :
    /\ i < k
    /\ calls[i].op = "create" /\ calls[i].pc = "resolved"
    /\ calls[k].op = "update" /\ calls[k].run.id = calls[i].run.id
    /\ \E a \in SendsOf(i), b \in SendsOf(k) :
         a < b /\ sent[a].op = "createRun" /\ sent[b].op = "updateRun"

\* C20: a step of onRunCreate or onRunUpdate, up to its success or its
\* failure, leaves the record it was called with, the run map and the nodes
\* the run map holds as they were; once the tracer is constructed no entry of
\* the run map is added, overwritten or removed.
C20_HandlersFrame ==
  /\ [][calls' # calls \/ sent' # sent =>
          /\ runMap' = runMap
          /\ tree' = tree
          /\ \A i \in 1..Len(calls) : calls'[i].run = calls[i].run]_vars
  /\ [][pc = "ready" => runMap' = runMap]_vars

\* C20 happens: in a tracer with three nodes in its run map, a create of a
\* record with children was rejected by the client and an update resolved;
\* the record still has its child_runs, which the payload sent has not.
C20_Witness ==
  /\ Cardinality(DOMAIN runMap) = 3
  /\ \E i, k \in 1..Len(calls) :
       /\ calls[i].op = "create" /\ calls[i].pc = "rejected"
       /\ calls[i].run.child_runs # <<>>
       /\ "child_runs" \notin DOMAIN calls[i].payload
       /\ calls[k].op = "update" /\ calls[k].pc = "resolved"

\* ---------------------------------------------------- adapter claims
CallsOf(k) == {c \in 1..Len(funcCalls) : funcCalls[c].invoke = k}

\* C14: a RunnableTraceable given a function without the instrumentation
\* capability fails in its constructor with the configuration error: it
\* holds no function, no invoke is made on it and the function is never
\* called; given an instrumented function it is constructed and holds it.
C14_ConstructionChecks ==
  /\ adapter.status # "none" =>
       (adapter.status = "constructed" <=> IsTraceableFunction(adapter.given))
  /\ adapter.status = "failed" =>
       /\ adapter.error = ConfigError
       /\ adapter.func = EmptyObject
       /\ invokes = <<>>
       /\ funcCalls = <<>>
  /\ adapter.status = "constructed" =>
       adapter.func = adapter.given /\ adapter.error = Undefined
  /\ \A c \in 1..Len(funcCalls) : IsTraceableFunction(funcCalls[c].func)

\* C14 happens: a construction with a plain function has failed.
C14_Witness ==
  /\ adapter.status = "failed"
  /\ adapter.given = PlainFunc
  /\ adapter.error = ConfigError

\* C15: an invoke has called the wrapped function not at all before its
\* callbacks are derived and exactly once after; the function received the
\* resolved configuration with its callbacks replaced by the callbacks derived
\* from that configuration, and the input as it was given; the invoke
\* resolves with the function's result and is rejected with its failure.
C15_InvokeCallsOnce ==
  \A k \in 1..Len(invokes) :
    LET inv == invokes[k]
        cfg == GetOptionsList(ResolveOptions(inv.args))
    IN /\ Cardinality(CallsOf(k)) = IF inv.pc = "awaitCallbacks" THEN 0 ELSE 1
       /\ \A c \in CallsOf(k) :
            /\ funcCalls[c].func = adapter.func
            /\ DOMAIN funcCalls[c].arg1 \ {"callbacks"} = DOMAIN cfg \ {"callbacks"}
            /\ \A key \in DOMAIN cfg \ {"callbacks"} : funcCalls[c].arg1[key] = cfg[key]
            /\ Get(funcCalls[c].arg1, "callbacks") = GetCallbackManagerForConfig(cfg)
            /\ funcCalls[c].arg2 = inv.args.input
            /\ inv.pc = "awaitFunc" <=> funcCalls[c].result = "pending"
            /\ inv.pc = "resolved" =>
                 funcCalls[c].result \in FuncResults /\ inv.value = funcCalls[c].result
            /\ inv.pc = "rejected" =>
                 funcCalls[c].result \in FuncErrors /\ inv.error = funcCalls[c].result

\* C15 happens: an invoke with callbacks in its options resolved with the
\* function's result, and an invoke without options was rejected with the
\* function's failure.
C15_Witness ==
  \E k, j \in 1..Len(invokes) :
    /\ "options" \in DOMAIN invokes[k].args
    /\ "callbacks" \in DOMAIN invokes[k].args.options
    /\ invokes[k].pc = "resolved"
    /\ \E c \in CallsOf(k) : funcCalls[c].arg1.callbacks = "manager:handlers"
    /\ "options" \notin DOMAIN invokes[j].args
    /\ invokes[j].pc = "rejected"
    /\ invokes[j].error \in FuncErrors

\* --------------------------------------------------- ordering claims
RECURSIVE SortedSeq(_)
\* The members of a set of numbers as an increasing sequence.
SortedSeq(S) ==
  IF S = {} THEN <<>>
  ELSE LET m == CHOOSE x \in S : \A y \in S : x <= y IN <<m>> \o SortedSeq(S \ {m})

\* The ancestries a run can have: its ancestors and itself, by start.
Paths == {SortedSeq(S) : S \in (SUBSET (1..MaxRuns)) \ {{}}}

\* Character codes: "." is 46, "0" is 48, "r" is 114.
SegChars(k) == <<48 + (k \div 10), 48 + (k % 10), 114, 48 + k>>

RECURSIVE PathString(_)
PathString(path) ==
  IF Len(path) = 1 THEN Segment(path[1])
  ELSE PathString(SubSeq(path, 1, Len(path) - 1)) \o "." \o Segment(path[Len(path)])

RECURSIVE PathChars(_)
PathChars(path) ==
  IF Len(path) = 1 THEN SegChars(path[1])
  ELSE PathChars(SubSeq(path, 1, Len(path) - 1)) \o <<46>> \o SegChars(path[Len(path)])

\* The characters of a dotted order string.
CharsOf(s) == PathChars(CHOOSE path \in Paths : PathString(path) = s)

RECURSIVE LexLess(_, _)
\* a < b in lexicographic order, a proper prefix being less.
LexLess(a, b) ==
  IF b = <<>> THEN FALSE
  ELSE IF a = <<>> THEN TRUE
  ELSE IF Head(a) # Head(b) THEN Head(a) < Head(b)
  ELSE LexLess(Tail(a), Tail(b))

StringLess(s, t) == LexLess(CharsOf(s), CharsOf(t))

Stored == {runMap[k] : k \in DOMAIN runMap}

\* Whether the run map's record n is reachable as a child_runs entry of the
\* run map's record with its parent's id, and shares that record's trace_id.
LinkedToParentRecord(n) ==
  LET pid == tree[tree[n].parent_run].id IN
    /\ pid \in DOMAIN runMap
    /\ n \in ChildSet(runMap[pid])
    /\ tree[n].trace_id = tree[runMap[pid]].trace_id

\* As createChild builds it: a node carries its parent's trace_id.
TraceShared ==
  \A n \in Heap :
    tree[n].parent_run # NoNode => tree[n].trace_id = tree[tree[n].parent_run].trace_id

\* C12 as stated, for any ambient tree: every run map record with a parent is
\* a child_runs entry of the run map's record with the parent's id and has
\* that record's trace_id.
C12_AnyTree ==
  pc = "ready" /\ ~NoAmbientTree =>
    \A n \in Stored : tree[n].parent_run # NoNode => LinkedToParentRecord(n)

\* C12, amended: after hydration from a well-formed tree (acyclic parent
\* links, parent and child links agreeing, distinct ids) whose nodes carry
\* their parent's trace_id, every run map record with a parent is a
\* child_runs entry of the run map's record with the parent's id and has
\* that record's trace_id.
C12_WellFormedTree ==
  pc = "ready" /\ ~NoAmbientTree /\ WellFormedTree /\ TraceShared =>
    \A n \in Stored : tree[n].parent_run # NoNode => LinkedToParentRecord(n)

\* C12 happens: a tracer hydrated inside a leaf of a root with two children.
C12_Witness ==
  /\ pc = "ready"
  /\ WellFormedTree /\ TraceShared
  /\ Cardinality(Stored) = 3
  /\ ambient = NodeRefs[3]
  /\ tree[NodeRefs[2]].parent_run = NodeRefs[1]
  /\ tree[NodeRefs[3]].parent_run = NodeRefs[1]
  /\ \A n \in Stored : tree[n].trace_id = NodeIds[1]

\* C13: no step of the constructor, from its entry to its end, changes the
\* ambient tree: every node keeps its id, parent link, child_runs and client,
\* in a well-formed tree and in a cyclic one; nor does anything after it.
C13_TreeUntouched == [][(pc # "new" \/ pc' # "new") => tree' = tree]_vars

\* C13 happens: a tracer finished its construction inside a cyclic tree that
\* carries no client, with two nodes in its run map and its default client.
C13_Witness ==
  /\ pc = "ready"
  /\ ~NoAmbientTree
  /\ ~AcyclicParents
  /\ Cardinality(Stored) >= 2
  /\ tree[traceableTree].client = Undefined
  /\ client = DefaultClient

RECURSIVE ChainSeq(_, _)
\* The parent chain of n as a sequence, n first, followed for at most k links.
ChainSeq(n, k) ==
  IF n = NoNode THEN <<>>
  ELSE IF k = 0 THEN <<n>>
  ELSE <<n>> \o ChainSeq(tree[n].parent_run, k - 1)

AmbientChain == ChainSeq(ambient, Cardinality(Heap))

\* Whether the id of the chain's i-th node is the id of a node before it.
IdSeenBefore(ch, i) == \E j \in 1..(i - 1) : tree[ch[j]].id = tree[ch[i]].id

\* The first node of the chain whose id was already visited, if there is one.
FirstRevisited(ch) ==
  LET hits == {i \in 1..Len(ch) : IdSeenBefore(ch, i)} IN
    IF hits = {} THEN NoNode
    ELSE ch[CHOOSE i \in hits : \A j \in hits : i <= j]

\* The first node of the chain that has no parent or whose id was visited.
FirstStop(ch) ==
  LET stops == {i \in 1..Len(ch) :
                  tree[ch[i]].parent_run = NoNode \/ IdSeenBefore(ch, i)} IN
    IF stops = {} THEN NoNode
    ELSE ch[CHOOSE i \in stops : \A j \in stops : i <= j]

RootDiscovered == pc \in {"flatten", "ready"} /\ ~NoAmbientTree

\* C17 as stated: the root discovered is on the ambient node's parent chain;
\* it is the ancestor without parent when the chain is acyclic, and the first
\* node whose id was already visited when the chain is cyclic.
C17_AcyclicOrCyclic ==
  RootDiscovered =>
    /\ rootRun \in ParentChain(ambient, Cardinality(Heap))
    /\ IF ChainEnds(ambient, Cardinality(Heap))
       THEN tree[rootRun].parent_run = NoNode
       ELSE rootRun = FirstRevisited(AmbientChain)

\* C17, amended: the constructor never fails in the root discovery, and the
\* root discovered is on the ambient node's parent chain: it is the first
\* node, from the ambient node upward, that has no parent or whose id was
\* already visited.  For an acyclic chain with distinct ids that is the one
\* ancestor without parent; for a cyclic chain it is the first node whose id
\* was already visited.
C17_RootDiscovery ==
  /\ pc # "failed"
  /\ RootDiscovered =>
       /\ rootRun \in ParentChain(ambient, Cardinality(Heap))
       /\ rootRun = FirstStop(AmbientChain)
       /\ ChainEnds(ambient, Cardinality(Heap))
          /\ (\A i \in 1..Len(AmbientChain) : ~IdSeenBefore(AmbientChain, i)) =>
            /\ tree[rootRun].parent_run = NoNode
            /\ \A n \in ParentChain(ambient, Cardinality(Heap)) :
                 tree[n].parent_run = NoNode => n = rootRun
       /\ ~ChainEnds(ambient, Cardinality(Heap)) =>
            rootRun = FirstRevisited(AmbientChain)

\* C17 happens: the ambient node's chain runs into a cycle that the ambient
\* node is not on, and the root discovered is the node where the cycle closes.
C17_Witness ==
  /\ pc = "ready"
  /\ ~NoAmbientTree
  /\ ~ChainEnds(ambient, Cardinality(Heap))
  /\ rootRun # ambient
  /\ tree[rootRun].parent_run # NoNode

RECURSIVE ReachVia(_, _, _)
\* The nodes reached from the set acc in at most k rounds through the
\* child_runs of the nodes in via.
ReachVia(via, acc, k) ==
  IF k = 0 THEN acc
  ELSE ReachVia(via, acc \cup UNION {ChildSet(n) : n \in acc \cap via}, k - 1)

\* The nodes reachable from the discovered root through child_runs links.
Reachable == ReachVia(Heap, {rootRun}, Cardinality(Heap))

\* The nodes reachable from the root through child_runs of stored nodes.
ReachableThroughStored == ReachVia(Stored, {rootRun}, Cardinality(Heap))

\* The places a node is met in breadth-first order: the root, then the
\* child_runs entries of the stored nodes, in the order they were stored.
MetAt ==
  {<<0, 1, rootRun>>}
  \cup UNION {{<<i, j, tree[runMap[setLog[i]]].child_runs[j]>> :
                 j \in 1..Len(tree[runMap[setLog[i]]].child_runs)} :
               i \in 1..Len(setLog)}

Earlier(o, q) == o[1] < q[1] \/ (o[1] = q[1] /\ o[2] <= q[2])

\* The node with id k that the breadth-first order meets first.
FirstMet(k) ==
  LET cands == {o \in MetAt : tree[o[3]].id = k}
      first == CHOOSE o \in cands : \A q \in cands : Earlier(o, q)
  IN first[3]

Hydrated == pc = "ready" /\ ~NoAmbientTree

\* C18 as stated: the run map's keys are the ids of the nodes reachable from
\* the discovered root through child_runs links, and each key maps to a node
\* with that id, the first met in breadth-first order.
C18_AllReachable ==
  Hydrated =>
    /\ DOMAIN runMap = {tree[n].id : n \in Reachable}
    /\ \A k \in DOMAIN runMap : tree[runMap[k]].id = k /\ runMap[k] = FirstMet(k)

\* C18, amended: the run map's keys are the ids of the nodes reachable from
\* the discovered root through child_runs links of nodes that are themselves
\* stored; each key maps to a node with that id, the one met first in
\* breadth-first order; a node that is not stored has an id that is, and the
\* nodes below it are reached only through others.
C18_ReachableThroughStored ==
  Hydrated =>
    /\ DOMAIN runMap = {tree[n].id : n \in ReachableThroughStored}
    /\ Stored \subseteq ReachableThroughStored
    /\ \A k \in DOMAIN runMap : tree[runMap[k]].id = k /\ runMap[k] = FirstMet(k)
    /\ Len(setLog) = Cardinality(DOMAIN runMap)

\* C18 happens: two nodes below the root share an id, the first is stored,
\* and the second, skipped, hides a node that is reachable from the root.
C18_Witness ==
  /\ pc = "ready"
  /\ ~NoAmbientTree
  /\ \E n \in Reachable \ Stored : \E m \in Stored : tree[m].id = tree[n].id
  /\ Reachable # ReachableThroughStored
  /\ Cardinality(Stored) >= 1

====
